---- MODULE Spec2Model ----
(***************************************************************************)
(* A model of the worker thread pool of threadPool.c: tpCreate, the worker *)
(* routine tpRoutine, tpInsertTask, tpDestroy and tpFreeThreadPool, as     *)
(* preemptible threads sharing one pool struct, one mutex (mutexEmptyQ)    *)
(* and one condition variable (cv).  A step is a lock acquisition, a run   *)
(* of consecutive statements under the mutex, an unlocked read or write of *)
(* the pool, or a call that blocks.  Client threads call tpInsertTask and  *)
(* tpDestroy in any order and at any time once tpCreate has returned.      *)
(* Using memory that tpFreeThreadPool has freed is undefined: the thread   *)
(* moves to "ub" and the function is recorded in h_dangling.  History      *)
(* variables (named h_...) record what has happened; the program's actions *)
(* never read them.                                                        *)
(***************************************************************************)
EXTENDS Integers, Sequences, FiniteSets, TLC

\* ------------------------------------------------------------- bounds ---
NumWorkers    == 2      \* numOfThreads passed to tpCreate
NumClients    == 2      \* client threads calling tpInsertTask and tpDestroy
MaxTasks      == 2      \* task nodes ever allocated by tnCreate

Workers    == 1..NumWorkers
Clients    == 1..NumClients
Tasks      == 1..MaxTasks

\* thread identities, as owners of the mutex
NoThread  == <<"none", 0>>
WorkerId(w)    == <<"worker", w>>
ClientId(c)    == <<"client", c>>

NoTask == 0             \* a NULL task_node pointer

VARIABLES
    \* --- tpCreate ---
    cpc,                \* position of the tpCreate call
    ci,                 \* loop index i of the start loop (line 125)
    \* --- the pool struct and what it points to ---
    taskQueue,          \* threadPool->taskQueue, a sequence of task nodes
    isShuttingDown,     \* threadPool->isShuttingDown
    shouldWaitForTasks, \* threadPool->shouldWaitForTasks
    mutexOwner,         \* owner of *threadPool->mutexEmptyQ, or NoThread
    poolFreed,          \* tpFreeThreadPool has freed queue, cv, mutex, struct
    \* --- workers (tpRoutine) ---
    wpc,                \* position of each worker
    wtask,              \* the local variable task of each worker
    \* --- clients: the threads that call tpInsertTask and tpDestroy ---
    pc,                 \* position of each client, "idle" between calls
    stask,              \* tpInsertTask's local variable taskNode
    sresult,            \* what the client's last tpInsertTask returned
    nextTask,           \* next task node tnCreate's malloc hands out
    ddrain,             \* the argument shouldWaitForTasks != 0 of the call
                        \* (meaningful once the call has read it, line 153)
    dji,                \* loop index i of the join loop (line 166)
    joined,             \* the worker threads a pthread_join has reaped
    \* --- history ---
    h_enq,              \* task nodes in the order osEnqueue pushed them
    h_deq,              \* task nodes in the order workers dequeued them
    h_runs,             \* how often each task's callable has returned
    h_torn,             \* how often the teardown loop freed each task
    h_late,             \* tasks enqueued while isShuttingDown was true
    h_sawShut,          \* the client's last tpInsertTask began with the flag set
    h_ok,               \* tasks whose tpInsertTask returned success
    h_before,           \* h_ok at the moment the first tpDestroy call began
    h_queued,           \* the queue's tasks when isShuttingDown was set
    h_running,          \* the tasks being executed at that moment
    h_passed,           \* clients whose tpDestroy got past the guard, line 144
    h_done,             \* those of them whose tpDestroy has returned, line 174
    h_joins,            \* how often each worker thread has been joined
    h_frees,            \* how often tpFreeThreadPool has been entered
    h_dangling,         \* the functions that have used freed pool memory
    h_woke,             \* the tpInsertTask call holding the mutex woke a worker
    h_failEnq,          \* tasks enqueued by a call that returned failure
    h_failWoke          \* a call that woke a worker returned failure

vars == <<cpc, ci, taskQueue, isShuttingDown, shouldWaitForTasks, mutexOwner,
          poolFreed, wpc, wtask, pc, stask, sresult,
          nextTask, ddrain, dji, joined, h_enq, h_deq, h_runs, h_torn, h_late,
          h_sawShut, h_ok, h_before, h_queued, h_running, h_passed, h_done, h_joins,
          h_frees, h_dangling, h_woke, h_failEnq, h_failWoke>>

poolVars    == <<taskQueue, isShuttingDown, shouldWaitForTasks, mutexOwner>>
freedVars   == <<poolFreed>>
createVars  == <<cpc, ci>>
workerVars  == <<wpc, wtask>>
submitVars  == <<stask, sresult, nextTask>>
destroyVars == <<ddrain, dji, joined>>
taskHist    == <<h_enq, h_deq, h_runs, h_torn, h_late>>
submitHist  == <<h_sawShut, h_ok>>
destroyHist == <<h_before, h_queued, h_running, h_passed, h_done, h_joins,
                 h_frees>>
failHist    == <<h_failEnq, h_failWoke>>

\* ------------------------------------------ the queue (osqueue) ---------
osIsQueueEmpty(q) == q = <<>>
osEnqueue(q, t)   == Append(q, t)
osFront(q)        == IF q = <<>> THEN NoTask ELSE Head(q)
osDequeueRest(q)  == IF q = <<>> THEN <<>> ELSE Tail(q)

\* ------------------------------------------------------------- Init -----
Init ==
    /\ cpc = "allocPool"
    /\ ci = 1
    /\ taskQueue = <<>>
    /\ isShuttingDown = FALSE
    /\ shouldWaitForTasks \in BOOLEAN      \* never initialised by tpCreate
    /\ mutexOwner = NoThread
    /\ poolFreed = FALSE
    /\ wpc = [w \in Workers |-> "notStarted"]
    /\ wtask = [w \in Workers |-> NoTask]
    /\ pc = [c \in Clients |-> "idle"]
    /\ stask = [c \in Clients |-> NoTask]
    /\ sresult = [c \in Clients |-> "none"]
    /\ nextTask = 1
    /\ ddrain = [c \in Clients |-> FALSE]
    /\ dji = [c \in Clients |-> 1]
    /\ joined = [w \in Workers |-> FALSE]
    /\ h_enq = <<>>
    /\ h_deq = <<>>
    /\ h_runs = [t \in Tasks |-> 0]
    /\ h_torn = [t \in Tasks |-> 0]
    /\ h_late = {}
    /\ h_sawShut = [c \in Clients |-> FALSE]
    /\ h_ok = {}
    /\ h_before = {}
    /\ h_queued = {}
    /\ h_running = {}
    /\ h_passed = {}
    /\ h_done = {}
    /\ h_joins = [w \in Workers |-> 0]
    /\ h_frees = 0
    /\ h_dangling = {}
    /\ h_woke = FALSE
    /\ h_failEnq = {}
    /\ h_failWoke = FALSE

\* ------------------------------------------------------- tpCreate -------
\* The five allocations of lines 83-112: each malloc may fail, and tpCreate
\* then returns NULL.
AllocNext(at) ==
    CASE at = "allocPool"  -> "allocArray"
      [] at = "allocArray" -> "allocMutex"
      [] at = "allocMutex" -> "allocCv"
      [] at = "allocCv"    -> "allocQueue"
      [] at = "allocQueue" -> "init"

TpCreateAlloc ==
    /\ cpc \in {"allocPool", "allocArray", "allocMutex", "allocCv", "allocQueue"}
    /\ \E ok \in BOOLEAN : cpc' = IF ok THEN AllocNext(cpc) ELSE "failed"
    /\ UNCHANGED <<ci, poolVars, freedVars, workerVars, pc, submitVars, destroyVars,
                   taskHist, submitHist, h_woke, failHist, destroyHist, h_dangling>>

\* Lines 115-122: initialise mutex and cv, numOfThreads, isShuttingDown.
TpCreateInit ==
    /\ cpc = "init"
    /\ cpc' = "start"
    /\ mutexOwner' = NoThread
    /\ isShuttingDown' = FALSE
    /\ UNCHANGED <<ci, taskQueue, shouldWaitForTasks, freedVars, workerVars,
                   pc, submitVars, destroyVars, taskHist, submitHist, h_woke, failHist, destroyHist,
                   h_dangling>>

\* One iteration of the start loop, lines 125-131, when the handle's malloc
\* succeeds: thread i is created and starts running tpRoutine.
TpCreateStartThread ==
    /\ cpc = "start"
    /\ ci <= NumWorkers
    /\ wpc' = [wpc EXCEPT ![ci] = "lock"]
    /\ ci' = ci + 1
    /\ UNCHANGED <<cpc, poolVars, freedVars, wtask, pc, submitVars, destroyVars,
                   taskHist, submitHist, h_woke, failHist, destroyHist, h_dangling>>

\* The handle's malloc fails inside the start loop: return NULL (line 128).
TpCreateStartFail ==
    /\ cpc = "start"
    /\ ci <= NumWorkers
    /\ cpc' = "failed"
    /\ UNCHANGED <<ci, poolVars, freedVars, workerVars, pc, submitVars, destroyVars,
                   taskHist, submitHist, h_woke, failHist, destroyHist, h_dangling>>

\* Line 133: the loop is over, return the pool.
TpCreateReturn ==
    /\ cpc = "start"
    /\ ci > NumWorkers
    /\ cpc' = "returned"
    /\ UNCHANGED <<ci, poolVars, freedVars, workerVars, pc, submitVars, destroyVars,
                   taskHist, submitHist, h_woke, failHist, destroyHist, h_dangling>>

\* ------------------------------------------------------- tpRoutine ------
\* TRUE when the worker's next step dereferences the pool.
WorkerUsesPool(w) == wpc[w] \in {"lock", "woken", "check", "dequeue", "exit"}

\* Line 24: pthread_mutex_lock.
TpRoutineLock(w) ==
    /\ wpc[w] = "lock"
    /\ ~poolFreed
    /\ mutexOwner = NoThread
    /\ mutexOwner' = WorkerId(w)
    /\ wpc' = [wpc EXCEPT ![w] = "check"]
    /\ UNCHANGED <<createVars, taskQueue, isShuttingDown, shouldWaitForTasks,
                   freedVars, wtask, pc, submitVars, destroyVars, taskHist,
                   submitHist, h_woke, failHist, destroyHist, h_dangling>>

\* The loop condition of line 29.
MustWait(q, shutting) == osIsQueueEmpty(q) /\ ~shutting

\* Mutants of ShouldExit: the drain flag is ignored, one way or the other.
M_ShouldExitNeverDrains(shutting, wait, q) == shutting
M_ShouldExitAlwaysDrains(shutting, wait, q) == shutting /\ osIsQueueEmpty(q)

\* Lines 41-51: TRUE when the worker breaks out of its loop.
ShouldExit(shutting, wait, q) ==
    IF shutting /\ wait
    THEN osIsQueueEmpty(q)
    ELSE shutting /\ ~wait

\* Lines 29-51, with the mutex held: test the loop condition, and either
\* block in pthread_cond_wait (which releases the mutex), or break, or go on
\* to line 57.
TpRoutineCheck(w) ==
    /\ wpc[w] = "check"
    /\ ~poolFreed
    /\ IF MustWait(taskQueue, isShuttingDown)
       THEN /\ wpc' = [wpc EXCEPT ![w] = "waiting"]
            /\ mutexOwner' = NoThread
       ELSE /\ wpc' = [wpc EXCEPT ![w] =
                 IF ShouldExit(isShuttingDown, shouldWaitForTasks, taskQueue)
                 THEN "exit" ELSE "dequeue"]
            /\ UNCHANGED mutexOwner
    /\ UNCHANGED <<createVars, taskQueue, isShuttingDown, shouldWaitForTasks,
                   freedVars, wtask, pc, submitVars, destroyVars, taskHist,
                   submitHist, h_woke, failHist, destroyHist, h_dangling>>

\* pthread_cond_wait may return without a signal (a spurious wakeup).
SpuriousWakeup(w) ==
    /\ wpc[w] = "waiting"
    /\ wpc' = [wpc EXCEPT ![w] = "woken"]
    /\ UNCHANGED <<createVars, poolVars, freedVars, wtask, pc, submitVars,
                   destroyVars, taskHist, submitHist, h_woke, failHist, destroyHist, h_dangling>>

\* Mutant of TpRoutineWake: the wait is under an `if`, not a `while`: the
\* woken worker goes on to osDequeue without testing the queue again.
M_TpRoutineWakeNoRecheck(w) ==
    /\ wpc[w] = "woken"
    /\ ~poolFreed
    /\ mutexOwner = NoThread
    /\ mutexOwner' = WorkerId(w)
    /\ wpc' = [wpc EXCEPT ![w] = "dequeue"]
    /\ UNCHANGED <<createVars, taskQueue, isShuttingDown, shouldWaitForTasks,
                   freedVars, wtask, pc, submitVars, destroyVars, taskHist,
                   submitHist, h_woke, failHist, destroyHist, h_dangling>>

\* Line 30: a woken pthread_cond_wait reacquires the mutex before it returns.
TpRoutineWake(w) ==
    /\ wpc[w] = "woken"
    /\ ~poolFreed
    /\ mutexOwner = NoThread
    /\ mutexOwner' = WorkerId(w)
    /\ wpc' = [wpc EXCEPT ![w] = "check"]
    /\ UNCHANGED <<createVars, taskQueue, isShuttingDown, shouldWaitForTasks,
                   freedVars, wtask, pc, submitVars, destroyVars, taskHist,
                   submitHist, h_woke, failHist, destroyHist, h_dangling>>

\* Mutant of TpRoutineDequeue: the front task is read but left in the queue.
M_TpRoutineDequeuePeeks(w) ==
    /\ wpc[w] = "dequeue"
    /\ ~poolFreed
    /\ wtask' = [wtask EXCEPT ![w] = osFront(taskQueue)]
    /\ h_deq' = IF osIsQueueEmpty(taskQueue) THEN h_deq
                ELSE Append(h_deq, osFront(taskQueue))
    /\ mutexOwner' = NoThread
    /\ wpc' = [wpc EXCEPT ![w] = "exec"]
    /\ UNCHANGED <<createVars, taskQueue, isShuttingDown, shouldWaitForTasks,
                   freedVars, pc, submitVars, destroyVars, h_enq, h_runs,
                   h_torn, h_late, submitHist, h_woke, failHist, destroyHist, h_dangling>>

\* Mutant of TpRoutineDequeue: the task is taken from the tail of the queue.
M_TpRoutineDequeueTakesLast(w) ==
    /\ wpc[w] = "dequeue"
    /\ ~poolFreed
    /\ taskQueue # <<>>
    /\ wtask' = [wtask EXCEPT ![w] = taskQueue[Len(taskQueue)]]
    /\ taskQueue' = SubSeq(taskQueue, 1, Len(taskQueue) - 1)
    /\ h_deq' = Append(h_deq, taskQueue[Len(taskQueue)])
    /\ mutexOwner' = NoThread
    /\ wpc' = [wpc EXCEPT ![w] = "exec"]
    /\ UNCHANGED <<createVars, isShuttingDown, shouldWaitForTasks,
                   freedVars, pc, submitVars, destroyVars, h_enq, h_runs,
                   h_torn, h_late, submitHist, h_woke, failHist, destroyHist, h_dangling>>

\* Mutant of TpRoutineDequeue: the mutex is not released before the callable
\* runs.
M_TpRoutineDequeueKeepsLock(w) ==
    /\ wpc[w] = "dequeue"
    /\ ~poolFreed
    /\ wtask' = [wtask EXCEPT ![w] = osFront(taskQueue)]
    /\ taskQueue' = osDequeueRest(taskQueue)
    /\ h_deq' = IF osIsQueueEmpty(taskQueue) THEN h_deq
                ELSE Append(h_deq, osFront(taskQueue))
    /\ wpc' = [wpc EXCEPT ![w] = "exec"]
    /\ UNCHANGED <<createVars, isShuttingDown, shouldWaitForTasks, mutexOwner,
                   freedVars, pc, submitVars, destroyVars, h_enq, h_runs, h_torn,
                   h_late, submitHist, h_woke, failHist, destroyHist, h_dangling>>

\* Lines 57-58: task = osDequeue(taskQueue), NULL when the queue is empty;
\* then pthread_mutex_unlock.
TpRoutineDequeue(w) ==
    /\ wpc[w] = "dequeue"
    /\ ~poolFreed
    /\ wtask' = [wtask EXCEPT ![w] = osFront(taskQueue)]
    /\ taskQueue' = osDequeueRest(taskQueue)
    /\ h_deq' = IF osIsQueueEmpty(taskQueue) THEN h_deq
                ELSE Append(h_deq, osFront(taskQueue))
    /\ mutexOwner' = NoThread
    /\ wpc' = [wpc EXCEPT ![w] = "exec"]
    /\ UNCHANGED <<createVars, isShuttingDown, shouldWaitForTasks,
                   freedVars, pc, submitVars, destroyVars, h_enq, h_runs, h_torn,
                   h_late, submitHist, h_woke, failHist, destroyHist, h_dangling>>

\* Lines 61-62: the callable runs and returns, the node is freed.  A NULL
\* task (dequeued from an empty queue) is dereferenced: the process crashes.
TpRoutineRun(w) ==
    /\ wpc[w] = "exec"
    /\ IF wtask[w] = NoTask
       THEN /\ wpc' = [wpc EXCEPT ![w] = "crashed"]
            /\ UNCHANGED <<wtask, h_runs>>
       ELSE /\ h_runs' = [h_runs EXCEPT ![wtask[w]] = @ + 1]
            /\ wtask' = [wtask EXCEPT ![w] = NoTask]
            /\ wpc' = [wpc EXCEPT ![w] = "lock"]
    /\ UNCHANGED <<createVars, poolVars, freedVars, pc, submitVars, destroyVars,
                   h_enq, h_deq, h_torn, h_late, submitHist, h_woke, failHist, destroyHist,
                   h_dangling>>

\* Lines 67-70: unlock and pthread_exit.
TpRoutineExit(w) ==
    /\ wpc[w] = "exit"
    /\ ~poolFreed
    /\ mutexOwner' = NoThread
    /\ wpc' = [wpc EXCEPT ![w] = "terminated"]
    /\ UNCHANGED <<createVars, taskQueue, isShuttingDown, shouldWaitForTasks,
                   freedVars, wtask, pc, submitVars, destroyVars, taskHist,
                   submitHist, h_woke, failHist, destroyHist, h_dangling>>

\* The worker's next access is to memory tpFreeThreadPool has freed: the
\* behaviour is undefined from here on.
TpRoutineDangling(w) ==
    /\ WorkerUsesPool(w)
    /\ poolFreed
    /\ wpc' = [wpc EXCEPT ![w] = "ub"]
    /\ h_dangling' = h_dangling \cup {"tpRoutine"}
    /\ UNCHANGED <<createVars, poolVars, freedVars, wtask, pc, submitVars,
                   destroyVars, taskHist, submitHist, h_woke, failHist, destroyHist>>

\* ----------------------------------------------------- tpInsertTask -----
\* Mutant of TpInsertRejects: the shutdown flag is not tested.
M_TpInsertRejectsNullOnly(shutting, funcIsNull) == funcIsNull

\* The condition of line 190 (the pool pointer is the one tpCreate returned).
TpInsertRejects(shutting, funcIsNull) == shutting \/ funcIsNull

\* Lines 190-200: the unlocked read of isShuttingDown, the argument check
\* and tnCreate, whose malloc may fail.  funcIsNull and allocOk are the
\* call's inputs.
TpInsertCheck(c) ==
    /\ cpc = "returned"
    /\ pc[c] = "idle"
    /\ ~poolFreed
    /\ h_sawShut' = [h_sawShut EXCEPT ![c] = isShuttingDown]
    /\ \E funcIsNull \in BOOLEAN, allocOk \in BOOLEAN :
         IF TpInsertRejects(isShuttingDown, funcIsNull) \/ ~allocOk
         THEN /\ sresult' = [sresult EXCEPT ![c] = "failure"]
              /\ UNCHANGED <<pc, stask, nextTask>>
         ELSE /\ nextTask <= MaxTasks
              /\ stask' = [stask EXCEPT ![c] = nextTask]
              /\ nextTask' = nextTask + 1
              /\ pc' = [pc EXCEPT ![c] = "iLock"]
              /\ UNCHANGED sresult
    /\ UNCHANGED <<createVars, poolVars, freedVars, workerVars, destroyVars,
                   taskHist, h_ok, destroyHist, h_dangling, h_woke, failHist>>

\* Line 203: pthread_mutex_lock.
TpInsertLock(c) ==
    /\ pc[c] = "iLock"
    /\ ~poolFreed
    /\ mutexOwner = NoThread
    /\ mutexOwner' = ClientId(c)
    /\ pc' = [pc EXCEPT ![c] = "iEnqueue"]
    /\ UNCHANGED <<createVars, taskQueue, isShuttingDown, shouldWaitForTasks,
                   freedVars, workerVars, submitVars, destroyVars, taskHist,
                   submitHist, h_woke, failHist, destroyHist, h_dangling>>

Waiting == {w \in Workers : wpc[w] = "waiting"}

\* Mutant of TpInsertEnqueue: the task is enqueued but pthread_cond_signal
\* is not called.
M_TpInsertEnqueueNoSignal(c) ==
    /\ pc[c] = "iEnqueue"
    /\ ~poolFreed
    /\ taskQueue' = osEnqueue(taskQueue, stask[c])
    /\ h_enq' = Append(h_enq, stask[c])
    /\ h_late' = IF isShuttingDown THEN h_late \cup {stask[c]} ELSE h_late
    /\ h_woke' = FALSE
    /\ pc' = [pc EXCEPT ![c] = "iUnlock"]
    /\ UNCHANGED <<createVars, isShuttingDown, shouldWaitForTasks, mutexOwner,
                   freedVars, workerVars, submitVars, destroyVars, h_deq,
                   h_runs, h_torn, submitHist, failHist, destroyHist,
                   h_dangling>>

\* Lines 209-212: osEnqueue, then pthread_cond_signal, which unblocks one of
\* the waiting workers, if any.
TpInsertEnqueue(c) ==
    /\ pc[c] = "iEnqueue"
    /\ ~poolFreed
    /\ taskQueue' = osEnqueue(taskQueue, stask[c])
    /\ h_enq' = Append(h_enq, stask[c])
    /\ h_late' = IF isShuttingDown THEN h_late \cup {stask[c]} ELSE h_late
    /\ IF Waiting = {}
       THEN UNCHANGED wpc
       ELSE \E w \in Waiting : wpc' = [wpc EXCEPT ![w] = "woken"]
    /\ h_woke' = (Waiting # {})
    /\ pc' = [pc EXCEPT ![c] = "iUnlock"]
    /\ UNCHANGED <<createVars, isShuttingDown, shouldWaitForTasks, mutexOwner,
                   freedVars, wtask, submitVars, destroyVars, h_deq, h_runs,
                   h_torn, submitHist, failHist, destroyHist, h_dangling>>

\* Lines 218-223: pthread_mutex_unlock, return TASK_INSERT_SUCCESS.
TpInsertUnlock(c) ==
    /\ pc[c] = "iUnlock"
    /\ ~poolFreed
    /\ mutexOwner' = NoThread
    /\ sresult' = [sresult EXCEPT ![c] = "success"]
    /\ h_ok' = h_ok \cup {stask[c]}
    /\ h_woke' = FALSE
    /\ stask' = [stask EXCEPT ![c] = NoTask]
    /\ pc' = [pc EXCEPT ![c] = "idle"]
    /\ UNCHANGED <<createVars, taskQueue, isShuttingDown, shouldWaitForTasks,
                   freedVars, workerVars, nextTask, destroyVars, taskHist,
                   h_sawShut, destroyHist, h_dangling, failHist>>

\* ------------------------- tpInsertTask: failing pthread calls -----------
\* A pthread call that fails changes nothing and returns an error code;
\* tpInsertTask then returns TASK_INSERT_FAILURE at once.

\* Lines 203-206: pthread_mutex_lock fails; the task node is not freed.
TpInsertLockFails(c) ==
    /\ pc[c] = "iLock"
    /\ ~poolFreed
    /\ sresult' = [sresult EXCEPT ![c] = "failure"]
    /\ stask' = [stask EXCEPT ![c] = NoTask]
    /\ pc' = [pc EXCEPT ![c] = "idle"]
    /\ UNCHANGED <<createVars, poolVars, freedVars, workerVars, nextTask,
                   destroyVars, taskHist, submitHist, h_woke, failHist,
                   destroyHist, h_dangling>>

\* Lines 209-215: osEnqueue, then pthread_cond_signal fails: no worker is
\* unblocked, and the call returns without unlocking the mutex.
TpInsertSignalFails(c) ==
    /\ pc[c] = "iEnqueue"
    /\ ~poolFreed
    /\ taskQueue' = osEnqueue(taskQueue, stask[c])
    /\ h_enq' = Append(h_enq, stask[c])
    /\ h_late' = IF isShuttingDown THEN h_late \cup {stask[c]} ELSE h_late
    /\ h_failEnq' = h_failEnq \cup {stask[c]}
    /\ sresult' = [sresult EXCEPT ![c] = "failure"]
    /\ stask' = [stask EXCEPT ![c] = NoTask]
    /\ pc' = [pc EXCEPT ![c] = "idle"]
    /\ UNCHANGED <<createVars, isShuttingDown, shouldWaitForTasks, mutexOwner,
                   freedVars, workerVars, nextTask, destroyVars, h_deq, h_runs,
                   h_torn, submitHist, h_woke, h_failWoke, destroyHist,
                   h_dangling>>

\* Lines 218-221: pthread_mutex_unlock fails: the mutex stays locked, and
\* the call returns failure with its task enqueued and the signal sent.
TpInsertUnlockFails(c) ==
    /\ pc[c] = "iUnlock"
    /\ ~poolFreed
    /\ h_failEnq' = h_failEnq \cup {stask[c]}
    /\ h_failWoke' = (h_failWoke \/ h_woke)
    /\ h_woke' = FALSE
    /\ sresult' = [sresult EXCEPT ![c] = "failure"]
    /\ stask' = [stask EXCEPT ![c] = NoTask]
    /\ pc' = [pc EXCEPT ![c] = "idle"]
    /\ UNCHANGED <<createVars, poolVars, freedVars, workerVars, nextTask,
                   destroyVars, taskHist, submitHist, destroyHist, h_dangling>>

\* -------------------------------------- tpDestroy, tpFreeThreadPool -----
\* The guard of line 144, an unlocked read of isShuttingDown.
TpDestroyGuard(shutting) == shutting

\* Lines 144-146: the call begins, and returns at once when the guard holds.
TpDestroyCheck(c) ==
    /\ cpc = "returned"
    /\ pc[c] = "idle"
    /\ ~poolFreed
    /\ h_before' = IF h_passed = {} THEN h_ok ELSE h_before
    /\ IF TpDestroyGuard(isShuttingDown)
       THEN UNCHANGED <<pc, h_passed>>
       ELSE /\ pc' = [pc EXCEPT ![c] = "dLock"]
            /\ h_passed' = h_passed \cup {c}
    /\ UNCHANGED <<createVars, poolVars, freedVars, workerVars, submitVars,
                   destroyVars, taskHist, submitHist, h_woke, failHist, h_queued, h_running,
                   h_done, h_joins, h_frees, h_dangling>>

\* Line 148: pthread_mutex_lock.
TpDestroyLock(c) ==
    /\ pc[c] = "dLock"
    /\ ~poolFreed
    /\ mutexOwner = NoThread
    /\ mutexOwner' = ClientId(c)
    /\ pc' = [pc EXCEPT ![c] = "dSet"]
    /\ UNCHANGED <<createVars, taskQueue, isShuttingDown, shouldWaitForTasks,
                   freedVars, workerVars, submitVars, destroyVars, taskHist,
                   submitHist, h_woke, failHist, destroyHist, h_dangling>>

Range(q) == {q[i] : i \in 1..Len(q)}

\* Mutant of TpDestroySet: the flags are set but pthread_cond_broadcast is
\* not called, so waiting workers stay blocked.
M_TpDestroySetNoBroadcast(c) ==
    /\ pc[c] = "dSet"
    /\ ~poolFreed
    /\ \E drain \in BOOLEAN :
         /\ ddrain' = [ddrain EXCEPT ![c] = drain]
         /\ shouldWaitForTasks' = drain
    /\ isShuttingDown' = TRUE
    /\ h_queued' = Range(taskQueue)
    /\ h_running' = {wtask[w] : w \in Workers} \ {NoTask}
    /\ pc' = [pc EXCEPT ![c] = "dUnlock"]
    /\ UNCHANGED <<createVars, taskQueue, mutexOwner, freedVars, workerVars,
                   submitVars, dji, joined, taskHist, submitHist, h_woke,
                   failHist, h_before, h_passed, h_done, h_joins, h_frees,
                   h_dangling>>

\* Lines 153-157: record the drain policy, set isShuttingDown, and
\* pthread_cond_broadcast, which unblocks every waiting worker.  drain is
\* the call's argument shouldWaitForTasks != 0, drawn here, where the call
\* first reads it.
TpDestroySet(c) ==
    /\ pc[c] = "dSet"
    /\ ~poolFreed
    /\ \E drain \in BOOLEAN :
         /\ ddrain' = [ddrain EXCEPT ![c] = drain]
         /\ shouldWaitForTasks' = drain
    /\ isShuttingDown' = TRUE
    /\ wpc' = [w \in Workers |-> IF wpc[w] = "waiting" THEN "woken" ELSE wpc[w]]
    /\ h_queued' = Range(taskQueue)
    /\ h_running' = {wtask[w] : w \in Workers} \ {NoTask}
    /\ pc' = [pc EXCEPT ![c] = "dUnlock"]
    /\ UNCHANGED <<createVars, taskQueue, mutexOwner, freedVars, wtask,
                   submitVars, dji, joined, taskHist, submitHist, h_woke, failHist, h_before,
                   h_passed, h_done, h_joins, h_frees, h_dangling>>

\* Line 161: pthread_mutex_unlock; the join loop starts at i = 0.
TpDestroyUnlock(c) ==
    /\ pc[c] = "dUnlock"
    /\ ~poolFreed
    /\ mutexOwner' = NoThread
    /\ pc' = [pc EXCEPT ![c] = "join"]
    /\ dji' = [dji EXCEPT ![c] = 1]
    /\ UNCHANGED <<createVars, taskQueue, isShuttingDown, shouldWaitForTasks,
                   freedVars, workerVars, submitVars, ddrain, joined, taskHist,
                   submitHist, h_woke, failHist, destroyHist, h_dangling>>

Bump(n) == IF n < 2 THEN n + 1 ELSE n

\* Mutant of JoinReturns: the join does not wait for the thread.
M_JoinReturnsAtOnce(c, w) == TRUE

\* Line 168: TRUE when pthread_join on worker w may return to client c.
\* It returns when w has terminated.  Joining a thread that has already been
\* joined, or that another thread is joining, is undefined; the call then
\* returns at once with an error, which line 168 only logs.
JoinReturns(c, w) ==
    \/ wpc[w] = "terminated"
    \/ joined[w]
    \/ \E e \in Clients \ {c} : pc[e] = "join" /\ dji[e] = w

\* One iteration of the join loop, lines 166-171.
TpDestroyJoin(c) ==
    /\ pc[c] = "join"
    /\ ~poolFreed
    /\ dji[c] <= NumWorkers
    /\ JoinReturns(c, dji[c])
    /\ joined' = [joined EXCEPT ![dji[c]] = @ \/ wpc[dji[c]] = "terminated"]
    /\ h_joins' = [h_joins EXCEPT ![dji[c]] = Bump(@)]
    /\ dji' = [dji EXCEPT ![c] = @ + 1]
    /\ UNCHANGED <<createVars, poolVars, freedVars, workerVars, pc, submitVars,
                   ddrain, taskHist, submitHist, h_woke, failHist, h_before, h_queued,
                   h_running, h_passed, h_done, h_frees, h_dangling>>

\* Line 173: the join loop is over, tpFreeThreadPool is called.
TpDestroyCallFree(c) ==
    /\ pc[c] = "join"
    /\ ~poolFreed
    /\ dji[c] > NumWorkers
    /\ pc' = [pc EXCEPT ![c] = "freeLoop"]
    /\ h_frees' = Bump(h_frees)
    /\ UNCHANGED <<createVars, poolVars, freedVars, workerVars, submitVars,
                   destroyVars, taskHist, submitHist, h_woke, failHist, h_before, h_queued,
                   h_running, h_passed, h_done, h_joins, h_dangling>>

\* Lines 258-260: one test of the teardown loop, and one iteration of it
\* when the queue is not empty.  No lock is held.
TpFreeLoop(c) ==
    /\ pc[c] = "freeLoop"
    /\ ~poolFreed
    /\ IF osIsQueueEmpty(taskQueue)
       THEN /\ pc' = [pc EXCEPT ![c] = "freeRest"]
            /\ UNCHANGED <<taskQueue, h_torn>>
       ELSE /\ taskQueue' = osDequeueRest(taskQueue)
            /\ h_torn' = [h_torn EXCEPT ![osFront(taskQueue)] = Bump(@)]
            /\ UNCHANGED pc
    /\ UNCHANGED <<createVars, isShuttingDown, shouldWaitForTasks, mutexOwner,
                   freedVars, workerVars, submitVars, destroyVars, h_enq,
                   h_deq, h_runs, h_late, submitHist, h_woke, failHist, destroyHist, h_dangling>>

\* Lines 261-280: osDestroyQueue, destroy and free the condition variable
\* and the mutex, free the handles, the array and the struct; tpDestroy
\* returns (line 174).
TpFreeRest(c) ==
    /\ pc[c] = "freeRest"
    /\ ~poolFreed
    /\ poolFreed' = TRUE
    /\ pc' = [pc EXCEPT ![c] = "idle"]
    /\ h_done' = h_done \cup {c}
    /\ UNCHANGED <<createVars, poolVars, workerVars, submitVars, destroyVars,
                   taskHist, submitHist, h_woke, failHist, h_before, h_queued, h_running,
                   h_passed, h_joins, h_frees, h_dangling>>

InsertPcs  == {"iLock", "iEnqueue", "iUnlock"}
DestroyPcs == {"dLock", "dSet", "dUnlock", "join", "freeLoop", "freeRest"}

\* The functions whose next step, taken by client c, dereferences the pool:
\* the one the client is in, or the one it calls next (lines 144 and 190
\* read the struct first).
ClientUsesPool(c) ==
    IF cpc # "returned" \/ pc[c] = "ub" THEN {}
    ELSE IF pc[c] \in InsertPcs THEN {"tpInsertTask"}
    ELSE IF pc[c] \in DestroyPcs THEN {"tpDestroy"}
    ELSE {"tpInsertTask", "tpDestroy"}

\* The client's next access is to memory tpFreeThreadPool has freed: the
\* behaviour is undefined from here on.
ClientDangling(c) ==
    /\ poolFreed
    /\ \E f \in ClientUsesPool(c) : h_dangling' = h_dangling \cup {f}
    /\ pc' = [pc EXCEPT ![c] = "ub"]
    /\ UNCHANGED <<createVars, poolVars, freedVars, workerVars, submitVars,
                   destroyVars, taskHist, submitHist, h_woke, failHist, destroyHist>>

\* ------------------------------------------------------------ Next ------
Next ==
    \/ TpCreateAlloc
    \/ TpCreateInit
    \/ TpCreateStartThread
    \/ TpCreateStartFail
    \/ TpCreateReturn
    \/ \E w \in Workers : TpRoutineLock(w)
    \/ \E w \in Workers : TpRoutineCheck(w)
    \/ \E w \in Workers : SpuriousWakeup(w)
    \/ \E w \in Workers : TpRoutineWake(w)
    \/ \E w \in Workers : TpRoutineDequeue(w)
    \/ \E w \in Workers : TpRoutineRun(w)
    \/ \E w \in Workers : TpRoutineExit(w)
    \/ \E w \in Workers : TpRoutineDangling(w)
    \/ \E c \in Clients : TpInsertCheck(c)
    \/ \E c \in Clients : TpInsertLock(c)
    \/ \E c \in Clients : TpInsertEnqueue(c)
    \/ \E c \in Clients : TpInsertUnlock(c)
    \/ \E c \in Clients : TpDestroyCheck(c)
    \/ \E c \in Clients : TpDestroyLock(c)
    \/ \E c \in Clients : TpDestroySet(c)
    \/ \E c \in Clients : TpDestroyUnlock(c)
    \/ \E c \in Clients : TpDestroyJoin(c)
    \/ \E c \in Clients : TpDestroyCallFree(c)
    \/ \E c \in Clients : TpFreeLoop(c)
    \/ \E c \in Clients : TpFreeRest(c)
    \/ \E c \in Clients : ClientDangling(c)

Spec == Init /\ [][Next]_vars

\* The program with pthread calls that may fail inside tpInsertTask.
NextFaults ==
    \/ Next
    \/ \E c \in Clients : TpInsertLockFails(c)
    \/ \E c \in Clients : TpInsertSignalFails(c)
    \/ \E c \in Clients : TpInsertUnlockFails(c)

SpecFaults == Init /\ [][NextFaults]_vars

\* The program used as its header asks: the thread that owns the pool is
\* the only one that calls tpDestroy, so no two calls race past line 144.
\* No worker outlives the pool then, and TpRoutineDangling has no step.
Owner == 1

NextOwned ==
    \/ TpCreateAlloc
    \/ TpCreateInit
    \/ TpCreateStartThread
    \/ TpCreateStartFail
    \/ TpCreateReturn
    \/ \E w \in Workers : TpRoutineLock(w)
    \/ \E w \in Workers : TpRoutineCheck(w)
    \/ \E w \in Workers : SpuriousWakeup(w)
    \/ \E w \in Workers : TpRoutineWake(w)
    \/ \E w \in Workers : TpRoutineDequeue(w)
    \/ \E w \in Workers : TpRoutineRun(w)
    \/ \E w \in Workers : TpRoutineExit(w)
    \/ \E c \in Clients : TpInsertCheck(c)
    \/ \E c \in Clients : TpInsertLock(c)
    \/ \E c \in Clients : TpInsertEnqueue(c)
    \/ \E c \in Clients : TpInsertUnlock(c)
    \/ TpDestroyCheck(Owner)
    \/ TpDestroyLock(Owner)
    \/ TpDestroySet(Owner)
    \/ TpDestroyUnlock(Owner)
    \/ TpDestroyJoin(Owner)
    \/ TpDestroyCallFree(Owner)
    \/ TpFreeLoop(Owner)
    \/ TpFreeRest(Owner)
    \/ \E c \in Clients : ClientDangling(c)

\* A thread that has started keeps being scheduled: tpCreate goes on to
\* its return, a worker takes its next step of tpRoutine (a callable it
\* runs returns), and a call of tpInsertTask or tpDestroy that has begun
\* takes its next step.  Nothing obliges a client to begin a call, nor a
\* wait to end without a signal.
TpCreateStep ==
    \/ TpCreateAlloc
    \/ TpCreateInit
    \/ TpCreateStartThread
    \/ TpCreateReturn

TpRoutineStep(w) ==
    \/ TpRoutineLock(w)
    \/ TpRoutineCheck(w)
    \/ TpRoutineWake(w)
    \/ TpRoutineDequeue(w)
    \/ TpRoutineRun(w)
    \/ TpRoutineExit(w)

TpInsertStep(c) ==
    \/ TpInsertLock(c)
    \/ TpInsertEnqueue(c)
    \/ TpInsertUnlock(c)

TpDestroyStep(c) ==
    \/ TpDestroyLock(c)
    \/ TpDestroySet(c)
    \/ TpDestroyUnlock(c)
    \/ TpDestroyJoin(c)
    \/ TpDestroyCallFree(c)
    \/ TpFreeLoop(c)
    \/ TpFreeRest(c)

Fairness ==
    /\ WF_vars(TpCreateStep)
    /\ \A w \in Workers : WF_vars(TpRoutineStep(w))
    /\ \A c \in Clients : WF_vars(TpInsertStep(c))
    /\ WF_vars(TpDestroyStep(Owner))

FairSpec == Init /\ [][NextOwned]_vars /\ Fairness

\* ======================================================== the claims ====
\* At most one tpDestroy call has got past the guard of line 144: the pool
\* is shut down by a single call.
OneDestroy == Cardinality(h_passed) <= 1

\* The position of task t in sequence q.
Pos(q, t) == CHOOSE i \in 1..Len(q) : q[i] = t
Count(q, t) == Cardinality({i \in 1..Len(q) : q[i] = t})

\* The teardown loop of tpFreeThreadPool has finished in some call.
TeardownLoopDone == h_done # {} \/ \E c \in Clients : pc[c] = "freeRest"

\* C1: with the pool shut down by one tpDestroy, no task is dequeued by
\* workers more than once, none is held by two workers, none is run more
\* than once, and none is both run (or being run) by a worker and freed by
\* the teardown loop: a task is executed once or never.
C1_ExactlyOnceOrAbandoned ==
    OneDestroy =>
        \A t \in Tasks :
            /\ Count(h_deq, t) <= 1
            /\ Count(h_enq, t) <= 1
            /\ Cardinality({w \in Workers : wtask[w] = t}) <= 1
            /\ h_runs[t] + Cardinality({w \in Workers : wtask[w] = t}) <= 1
            /\ h_torn[t] <= 1
            /\ Count(h_deq, t) + h_torn[t] <= 1

\* C1 witness: a single tpDestroy has returned, one task was run by a
\* worker and another was freed by the teardown loop.
C1_Witness ==
    /\ OneDestroy
    /\ h_done # {}
    /\ \E t, u \in Tasks : h_runs[t] = 1 /\ h_torn[u] = 1

\* C2: when the single tpDestroy call that shuts the pool down drains, it
\* returns only after every task whose tpInsertTask had returned success
\* before the call began was run by a worker; the teardown loop freed none.
C2_DrainRunsEarlierTasks ==
    \A c \in h_done :
        (h_passed = {c} /\ ddrain[c]) =>
            \A t \in h_before : h_runs[t] = 1 /\ h_torn[t] = 0

\* C2 witness: a draining tpDestroy has returned, with tasks inserted
\* before it began, one of them still queued when the flag was set.
C2_Witness ==
    \E c \in h_done :
        /\ h_passed = {c}
        /\ ddrain[c]
        /\ h_before \cap h_queued # {}

\* C3: when the single tpDestroy call that shuts the pool down does not
\* drain, a task that was in the queue when isShuttingDown was set is never
\* taken or run by a worker, and once tpDestroy has returned the teardown loop
\* has freed it and every task that was being executed has been run.
C3_NoDrainAbandonsQueued ==
    \A c \in Clients :
        (h_passed = {c} /\ isShuttingDown /\ ~ddrain[c]) =>
            /\ \A t \in h_queued :
                 /\ h_runs[t] = 0
                 /\ \A w \in Workers : wtask[w] # t
                 /\ c \in h_done => h_torn[t] = 1
            /\ \A t \in h_running : c \in h_done => h_runs[t] = 1

\* C3 witness: a tpDestroy without drain has returned; when it set the flag
\* one task was queued and another was being executed.
C3_Witness ==
    \E c \in h_done :
        /\ h_passed = {c}
        /\ ~ddrain[c]
        /\ h_queued # {}
        /\ h_running # {}

\* C4: no task is enqueued by tpInsertTask in a state where isShuttingDown
\* is already true.
C4_NoEnqueueAfterShutdown == h_late = {}

\* C5: a tpInsertTask call that began with isShuttingDown set (the pool not
\* yet freed) has returned TASK_INSERT_FAILURE without creating a task and
\* without going on to lock, enqueue or signal.
C5_InsertAfterShutdownFails ==
    \A c \in Clients :
        h_sawShut[c] =>
            /\ sresult[c] = "failure"
            /\ stask[c] = NoTask
            /\ pc[c] \notin InsertPcs

\* C5 witness: a call was made with the flag set, before the pool was
\* freed, while tasks were in the queue.
C5_Witness ==
    \E c \in Clients :
        /\ h_sawShut[c]
        /\ sresult[c] = "failure"
        /\ ~poolFreed
        /\ taskQueue # <<>>

\* C6: with the pool shut down by one tpDestroy, once the teardown loop has
\* finished no task node is in the queue.
C6_NothingQueuedAfterTeardown ==
    (OneDestroy /\ TeardownLoopDone) => taskQueue = <<>>

\* C7: the tpDestroy call that shuts the pool down does not start
\* tpFreeThreadPool, nor return, before every worker has terminated.
C7_FreeOnlyAfterWorkersStopped ==
    \A c \in Clients :
        (h_passed = {c} /\ (pc[c] \in {"freeLoop", "freeRest"} \/ c \in h_done)) =>
            \A w \in Workers : wpc[w] = "terminated"

\* C7 witness: the one tpDestroy call has returned.
C7_Witness ==
    \E c \in Clients : h_passed = {c} /\ c \in h_done /\ h_joins[1] = 1

\* C8: however tpDestroy is called twice, each worker is joined at most
\* once, tpFreeThreadPool runs at most once and tpDestroy reads no freed
\* pool state.
C8_DoubleDestroySafe ==
    /\ \A w \in Workers : h_joins[w] <= 1
    /\ h_frees <= 1
    /\ "tpDestroy" \notin h_dangling

\* C9: workers dequeue tasks in the order in which they were enqueued.
C9_Fifo ==
    \A i, j \in 1..Len(h_deq) :
        i < j => Pos(h_enq, h_deq[i]) < Pos(h_enq, h_deq[j])

\* C9 witness: two tasks were dequeued by workers, the one created second
\* having been enqueued, and dequeued, first.
C9_Witness ==
    /\ Len(h_deq) >= 2
    /\ h_deq[1] > h_deq[2]

\* C10: when tpCreate has returned NULL, no worker thread of the pool has
\* been started.
C10_CreateFailsAtomically ==
    cpc = "failed" => \A w \in Workers : wpc[w] = "notStarted"

\* C11: a tpInsertTask call that returned TASK_INSERT_FAILURE has added no
\* task to the queue and has woken no worker.
C11_FailureAddsNothing ==
    /\ h_failEnq = {}
    /\ ~h_failWoke

\* C15: after tpInsertTask has returned, its caller does not hold
\* mutexEmptyQ.
C15_NoLockHeldAfterReturn ==
    \A c \in Clients : pc[c] = "idle" => mutexOwner # ClientId(c)

\* C12: every step of a worker, of tpInsertTask, of tpDestroy and of
\* tpFreeThreadPool that reads or writes taskQueue, isShuttingDown or
\* shouldWaitForTasks is taken by the thread that holds mutexEmptyQ.
AccessesByWorker(w) ==
    \/ TpRoutineCheck(w)
    \/ TpRoutineDequeue(w)

AccessesByClient(c) ==
    \/ TpInsertCheck(c)
    \/ TpInsertEnqueue(c)
    \/ TpDestroyCheck(c)
    \/ TpDestroySet(c)
    \/ TpFreeLoop(c)

C12_AccessesHoldMutex ==
    [][/\ \A w \in Workers : AccessesByWorker(w) => mutexOwner = WorkerId(w)
       /\ \A c \in Clients : AccessesByClient(c) => mutexOwner = ClientId(c)]_vars

\* C13: shouldWaitForTasks is written once: at most one call of tpDestroy
\* has gone through the critical section that sets the shutdown flags.
WroteDrainPolicy(c) ==
    /\ c \in h_passed
    /\ \/ pc[c] \in {"dUnlock", "join", "freeLoop", "freeRest"}
       \/ c \in h_done

C13_DrainPolicyWrittenOnce ==
    Cardinality({c \in Clients : WroteDrainPolicy(c)}) <= 1

\* C14: when the one tpDestroy call, made with drain requested, has
\* returned, every task that was enqueued after isShuttingDown was set has
\* been run by a worker.
C14_LateTaskRunsBeforeDestroyReturns ==
    \A c \in h_done :
        (h_passed = {c} /\ ddrain[c]) => \A t \in h_late : h_runs[t] = 1

\* C16: once isShuttingDown is set, every worker eventually has terminated
\* and the tpDestroy call eventually has returned (callables return and
\* every started thread keeps being scheduled).
AllTerminated == \A w \in Workers : wpc[w] = "terminated"

C16_ShutdownCompletes ==
    /\ isShuttingDown ~> AllTerminated
    /\ isShuttingDown ~> (Owner \in h_done)

C16_Witness ==
    /\ isShuttingDown
    /\ AllTerminated
    /\ Owner \in h_done
    /\ h_queued # {}
    /\ h_running # {}

\* C17: while the pool is not shutting down no wakeup is lost: there is no
\* state with a task in the queue and every worker blocked in
\* pthread_cond_wait with no signal pending, and every task in the queue is
\* eventually run by a worker unless shutdown is requested first.
NoLostWakeup ==
    (cpc = "returned" /\ ~isShuttingDown /\ ~osIsQueueEmpty(taskQueue))
        => \E w \in Workers : wpc[w] # "waiting"

C17_NoLostWakeup ==
    /\ []NoLostWakeup
    /\ \A t \in Tasks :
          (t \in Range(taskQueue) /\ ~isShuttingDown)
              ~> (h_runs[t] = 1 \/ isShuttingDown)

C17_Witness ==
    /\ ~isShuttingDown
    /\ h_woke
    /\ ~osIsQueueEmpty(taskQueue)
    /\ \A w \in Workers : wpc[w] \in {"waiting", "woken"}

C19_ExitOnlyOnShutdown ==
    \A w \in Workers :
        /\ wpc[w] \in {"exit", "terminated"} => isShuttingDown
        /\ wpc[w] = "exit" =>
              /\ mutexOwner = WorkerId(w)
              /\ shouldWaitForTasks => osIsQueueEmpty(taskQueue)

C19_Witness ==
    \E w \in Workers :
        /\ wpc[w] = "exit"
        /\ shouldWaitForTasks
        /\ h_queued # {}

\* C20: a worker that is running a callable does not hold mutexEmptyQ.
C20_ExecutingWithoutMutex ==
    \A w \in Workers : wpc[w] = "exec" => mutexOwner # WorkerId(w)

C20_Witness ==
    \E w \in Workers :
        /\ wpc[w] = "exec"
        /\ mutexOwner \notin {NoThread, WorkerId(w)}

====
